---- MODULE Spec2Model ----
(***************************************************************************)
(* Model of the health / storage-lifecycle core of geass-trading:          *)
(*   src/src/config/prisma.service.ts   PrismaService                      *)
(*   src/src/health/health.service.ts   HealthService                      *)
(*   src/src/health/health.controller.ts HealthController                  *)
(*   src/src/main.ts, app.module.ts, health.module.ts  composition         *)
(*                                                                         *)
(* A method that may raise is modelled by a completion record:             *)
(*   [kind |-> "return", value |-> v]   or   [kind |-> "throw"].           *)
(* Fields of the snapshots that carry no decision (timestamp, uptime,      *)
(* memory, version, environment) are left out of the snapshot records.     *)
(***************************************************************************)
EXTENDS Integers, FiniteSets, Sequences, Bags, TLC

\* ---------------------------------------------------------------- bounds
\* Largest measured round-trip time (ms) of the database probe.
MaxLatency == 1
\* Largest lateness (ms) of the simulated redis timer.
MaxJitter == 0
\* Largest step back (ms) of the wall clock between the two Date.now()
\* readings of one probe.
MaxClockStep == 2
\* Most calls of one family (probing calls, getDatabaseInfo calls) that have
\* been entered and whose result has not yet been handed over.
MaxCalls == 2

\* ------------------------------------------------------------- constants
\* health.service.ts:84  setTimeout(resolve, 5)
RedisDelay == 5
\* health.controller.ts:29,62,85  status of a handler that returns normally
HttpOk == 200
\* health.controller.ts:34,103  status announced for a degraded result
HttpUnavailable == 503

\* PrismaService is listed in the providers of AppModule and of HealthModule,
\* so the injector builds one instance per module.
Instances == {"app", "health"}
\* The instance injected into HealthService (HealthModule's own provider).
ProbedInstance == "health"

VARIABLES
    phase,      \* process: "starting" | "listening" | "aborted" | "exited" | ...
                \*   ("exited": ended by a signal, from any phase it was alive in)
    conn,       \* conn[i]: ConnectionState of PrismaService instance i
    initLog,    \* initLog[i]: awaits of onModuleInit of instance i settled so far
    dbUp,       \* TRUE iff the store currently answers
    initResult, \* initResult[i]: "none" | "return" | "throw" of onModuleInit
    destroyed,  \* destroyed[i]: progress of onModuleDestroy of instance i
    ts,         \* time-series side of the store (see TsStates)
    silent,     \* TRUE iff the store neither answers nor rejects
    redisUp,    \* TRUE iff a Redis server is reachable (no code reads it)
    calls,      \* bag of the frames of the check() / readiness() calls
    infos,      \* bag of the frames of the getDatabaseInfo() calls
    lastLive    \* last GET /health/live exchange

vars == <<phase, conn, initLog, initResult, destroyed, dbUp, ts, silent,
          redisUp, calls, infos, lastLive>>

Ret(v) == [kind |-> "return", value |-> v]
Throw == [kind |-> "throw"]
NoCall == [kind |-> "none"]

\* ------------------------------------------------------- PrismaService
\* Outcome of a raw client call ($connect, $queryRaw, $executeRaw) against
\* the store: it resolves when the store answers and rejects otherwise.
QueryRaw(up) == IF up THEN "ok" ELSE "raise"

\* mutant: a store whose bootstrap ended in warnings is reported unhealthy
isHealthy_needsBootstrap(q) ==
    IF q = "ok" /\ "ext:warned" \notin {initLog["health"][k] : k \in DOMAIN initLog["health"]}
    THEN Ret(TRUE) ELSE Ret(FALSE)

\* mutant: the catch of isHealthy is missing
isHealthy_nocatch(q) == IF q = "ok" THEN Ret(TRUE) ELSE Throw

\* isHealthy(): try { await $queryRaw`SELECT 1`; return true } catch { return false }
isHealthy(q) == IF q = "ok" THEN Ret(TRUE) ELSE Ret(FALSE)

\* enableTimescaleDB(): the step's own try/catch turns a failure into a warning.
enableTimescaleDB(e) == Ret(IF e = "ok" THEN "ext:applied" ELSE "ext:warned")

\* createMarketDataHypertable(): same containment.
createMarketDataHypertable(h) == Ret(IF h = "ok" THEN "hyper:applied" ELSE "hyper:warned")

\* mutant: the hypertable is created before the extension is enabled
initializeTimescaleDB_swapped(e, h) ==
    Ret(<<createMarketDataHypertable(h).value, enableTimescaleDB(e).value>>)

\* mutant: a step that ended in a warning fails the whole bootstrap
initializeTimescaleDB_rethrow(e, h) ==
    IF e = "ok" /\ h = "ok"
    THEN Ret(<<enableTimescaleDB(e).value, createMarketDataHypertable(h).value>>)
    ELSE Throw

\* initializeTimescaleDB(): enable, then create, inside one more try/catch.
initializeTimescaleDB(e, h) ==
    LET s1 == enableTimescaleDB(e)
        s2 == createMarketDataHypertable(h)
    IN  IF s1.kind = "throw" THEN Ret(<<>>)
        ELSE IF s2.kind = "throw" THEN Ret(<<s1.value>>)
        ELSE Ret(<<s1.value, s2.value>>)

\* mutant: a failed $connect is logged and swallowed
onModuleInit_swallow(c, e, h) ==
    IF c # "ok"
    THEN [kind |-> "return", steps |-> <<"connect:failed">>]
    ELSE [kind |-> "return", steps |-> <<"connect:ok">> \o initializeTimescaleDB(e, h).value]

\* mutant: a failed bootstrap step aborts the hook
onModuleInit_strict(c, e, h) ==
    IF c # "ok"
    THEN [kind |-> "throw", steps |-> <<"connect:failed">>]
    ELSE [kind |-> IF e = "ok" /\ h = "ok" THEN "return" ELSE "throw",
          steps |-> <<"connect:ok">> \o initializeTimescaleDB(e, h).value]

\* onModuleInit(): $connect, then the bootstrap; a failure is logged and rethrown.
\* .steps is the list of steps run; .kind tells whether the hook raised.
onModuleInit(c, e, h) ==
    IF c # "ok"
    THEN [kind |-> "throw", steps |-> <<"connect:failed">>]
    ELSE LET b == initializeTimescaleDB(e, h)
         IN  IF b.kind = "throw"
             THEN [kind |-> "throw", steps |-> <<"connect:ok">>]
             ELSE [kind |-> "return", steps |-> <<"connect:ok">> \o b.value]

\* mutant: a failed $disconnect is rethrown
onModuleDestroy_rethrow(d) == IF d = "ok" THEN Ret("released") ELSE Throw

\* onModuleDestroy(): $disconnect; a failure is logged, not rethrown.
onModuleDestroy(d) == Ret(IF d = "ok" THEN "released" ELSE "release-failed")

\* The value of an optional field that was never assigned.
Undefined == "undefined"

\* mutant: the capability lookup is not guarded, a failed or empty lookup
\* fails the whole call
getDatabaseInfo_strict(v, t) ==
    IF v = "ok" /\ t = "row"
    THEN Ret([version |-> "backend", timescaleVersion |-> "extversion"])
    ELSE Throw

\* getDatabaseInfo(): v is the outcome of SELECT version(), t the outcome of
\* the pg_extension lookup ("row", "norow", "raise").  The inner try/catch
\* contains a failed lookup and `?.` an empty one; the outer catch logs and
\* rethrows whatever the version query raised.
getDatabaseInfo(v, t) ==
    IF v = "ok"
    THEN Ret([version |-> "backend",
              timescaleVersion |-> IF t = "row" THEN "extversion" ELSE Undefined])
    ELSE Throw

\* ------------------------------------------------------- HealthService
\* mutant: an unhealthy database is raised instead of being returned as -1
checkDatabase_raises(q, elapsed) ==
    LET h == isHealthy(q)
    IN  IF h.kind = "return" /\ h.value THEN Ret(elapsed) ELSE Throw

\* checkDatabase(): elapsed time of isHealthy() when it answers true, else -1.
checkDatabase(q, elapsed) ==
    LET h == isHealthy(q)
    IN  IF h.kind = "throw" THEN Ret(-1)
        ELSE IF h.value THEN Ret(elapsed) ELSE Ret(-1)

\* mutant: the TODO of checkRedis() is implemented, a real ping that fails
\* into the catch branch when no server is reachable
checkRedis_ping(elapsed) == IF redisUp THEN Ret(elapsed) ELSE Ret(-1)

\* checkRedis(): elapsed time of the simulated delay (the timer never rejects).
checkRedis(elapsed) == Ret(elapsed)

\* mutant: -1 is taken for a healthy answer (test is "# 0" instead of "> 0")
isDatabaseHealthy_nonzero(q, elapsed) ==
    LET rt == checkDatabase(q, elapsed)
    IN  IF rt.kind = "throw" THEN Ret(FALSE) ELSE Ret(rt.value # 0)

\* isDatabaseHealthy(): responseTime > 0, FALSE when checkDatabase raises.
isDatabaseHealthy(q, elapsed) ==
    LET rt == checkDatabase(q, elapsed)
    IN  IF rt.kind = "throw" THEN Ret(FALSE) ELSE Ret(rt.value > 0)

\* isRedisHealthy(): responseTime > 0, FALSE when checkRedis raises.
isRedisHealthy(elapsed) ==
    LET rt == checkRedis(elapsed)
    IN  IF rt.kind = "throw" THEN Ret(FALSE) ELSE Ret(rt.value > 0)

\* mutant: a dependency whose probe failed is left out of the map
Checks_omitFailed(dbTime, redisTime) ==
    LET all == [database |-> [status |-> "up", responseTime |-> dbTime,
                              details |-> "Connected successfully"],
                redis    |-> [status |-> "up", responseTime |-> redisTime,
                              details |-> "Connected successfully"]]
    IN  [k \in {n \in DOMAIN all : all[n].responseTime # -1} |-> all[k]]

\* The checks literal of check(): both status fields are the constant 'up'.
Checks(dbTime, redisTime) ==
    [database |-> [status |-> "up", responseTime |-> dbTime,
                   details |-> "Connected successfully"],
     redis    |-> [status |-> "up", responseTime |-> redisTime,
                   details |-> "Connected successfully"]]

\* mutant: the overall status is derived from the response time
check_byTime(q, dbElapsed, redisElapsed) ==
    LET d == checkDatabase(q, dbElapsed)
        r == checkRedis(redisElapsed)
    IN  IF d.kind = "throw" \/ r.kind = "throw" THEN Throw
        ELSE Ret([status |-> IF d.value >= 0 THEN "ok" ELSE "error",
                  checks |-> Checks(d.value, r.value)])

\* check(): the deep-health snapshot.
check(q, dbElapsed, redisElapsed) ==
    LET d == checkDatabase(q, dbElapsed)
        r == checkRedis(redisElapsed)
    IN  IF d.kind = "throw" \/ r.kind = "throw" THEN Throw
        ELSE LET checks == Checks(d.value, r.value)
                 allHealthy == \A k \in DOMAIN checks : checks[k].status = "up"
             IN  Ret([status |-> IF allHealthy THEN "ok" ELSE "error",
                      checks |-> checks])

\* mutant: the overall status ignores the dependencies
readiness_always(q, dbElapsed, redisElapsed) ==
    LET d == isDatabaseHealthy(q, dbElapsed)
        r == isRedisHealthy(redisElapsed)
    IN  IF d.kind = "throw" \/ r.kind = "throw" THEN Throw
        ELSE Ret([status |-> "ready",
                  dependencies |-> [database |-> d.value, redis |-> r.value]])

\* readiness(): the boolean-per-dependency snapshot.
readiness(q, dbElapsed, redisElapsed) ==
    LET d == isDatabaseHealthy(q, dbElapsed)
        r == isRedisHealthy(redisElapsed)
    IN  IF d.kind = "throw" \/ r.kind = "throw" THEN Throw
        ELSE LET dependencies == [database |-> d.value, redis |-> r.value]
                 allReady == \A k \in DOMAIN dependencies : dependencies[k]
             IN  Ret([status |-> IF allReady THEN "ready" ELSE "not-ready",
                      dependencies |-> dependencies])

\* ---------------------------------------------------- HealthController
\* A handler that returns answers 200 (no @HttpCode, no exception raised);
\* a handler that raises a plain error is answered 500 by the framework.
Respond(r) ==
    [body |-> r, http |-> IF r.kind = "throw" THEN 500 ELSE HttpOk]

\* GET /health
HealthController_check(q, dbElapsed, redisElapsed) ==
    Respond(check(q, dbElapsed, redisElapsed))

\* GET /health/ready
HealthController_ready(q, dbElapsed, redisElapsed) ==
    Respond(readiness(q, dbElapsed, redisElapsed))

\* mutant: liveness follows the database
live_followsDb == Ret([status |-> IF dbUp THEN "ok" ELSE "error"])

\* live(): fixed 'ok'.
live == Ret([status |-> "ok"])

\* GET /health/live
HealthController_live == Respond(live)

\* ------------------------------------------------------------ inputs
\* Date.now() - start around the round-trip (health.service.ts:70, :73):
\* Date.now() reads the wall clock, which is not monotonic, so the
\* difference is the round-trip time less whatever the clock was set back
\* in between, and can be negative.
DbLatencies == (0 - MaxClockStep) .. MaxLatency
\* Date.now() - start is evaluated only when isHealthy() answered true
\* (health.service.ts:73); otherwise no elapsed time is observed.
MeasuredLatencies(q) == IF q = "ok" THEN DbLatencies ELSE {0}
\* Date.now() difference around a 5 ms timer (health.service.ts:80, :85):
\* the timer may be seen one millisecond early (millisecond truncation) or
\* late by the loop's load, less whatever the wall clock was set back.
RedisLatencies == (RedisDelay - 1 - MaxClockStep) .. (RedisDelay + MaxJitter)
StepOutcomes == {"ok", "raise"}
RequestKinds == {"check", "ready"}

\* What one probing call observed: the store and the client when its
\* round-trip settled, the outcome of the round-trip, the measured times.
ProbeInput(q, dbElapsed, redisElapsed) ==
    [dbUp |-> dbUp, q |-> q, healthy |-> isHealthy(q),
     dbElapsed |-> dbElapsed, redisElapsed |-> redisElapsed,
     conn |-> conn[ProbedInstance], boot |-> initLog[ProbedInstance]]

\* ------------------------------------------------------------- store
\* Time-series side of the store:
\*   "missing"     the backend has no timescaledb capability
\*   "available"   capability installed, extension not yet created
\*   "enabled"     extension created, market_data not yet a hypertable
\*   "hypertable"  extension created and market_data is a hypertable
TsStates == {"missing", "available", "enabled", "hypertable"}

\* CREATE EXTENSION IF NOT EXISTS timescaledb can succeed only where the
\* capability is installed.
CanEnable(t) == t # "missing"
\* create_hypertable(..., if_not_exists => TRUE) can succeed only once the
\* extension exists.
CanCreate(t) == t \in {"enabled", "hypertable"}

Range(seq) == {seq[k] : k \in DOMAIN seq}

\* Effect on the store of the bootstrap steps that were applied.
ApplySteps(t, steps) ==
    LET t1 == IF "ext:applied" \in Range(steps) /\ t = "available"
              THEN "enabled" ELSE t
    IN  IF "hyper:applied" \in Range(steps) THEN "hypertable" ELSE t1

\* What the pg_extension lookup answers when the store answers.
CapabilityAnswer(t) == IF t \in {"enabled", "hypertable"} THEN "row" ELSE "norow"

\* Whether the store lets a bootstrap step end this way right now.
StepPossible(step) ==
    CASE step = "connect:ok"     -> dbUp
      [] step = "connect:failed" -> ~dbUp
      [] step = "ext:applied"    -> dbUp /\ CanEnable(ts)
      [] step = "hyper:applied"  -> dbUp /\ CanCreate(ts)
      [] OTHER                   -> TRUE

\* ------------------------------------------------------------- state
lifecycle == <<conn, initLog, initResult, destroyed>>
store == <<dbUp, ts, silent>>

\* Requests are served once listen() has completed.
Serving == phase = "listening"

\* Replace (or, with an empty replacement, drop) one frame of a bag.
Swap(bag, old, new) == (bag (-) SetToBag({old})) (+) new

Init ==
    /\ phase = "starting"
    /\ conn = [i \in Instances |-> "Disconnected"]
    /\ initLog = [i \in Instances |-> <<>>]
    /\ initResult = [i \in Instances |-> "none"]
    /\ destroyed = [i \in Instances |-> NoCall]
    /\ dbUp \in BOOLEAN
    /\ ts \in TsStates
    /\ silent = FALSE
    /\ redisUp \in BOOLEAN
    /\ calls = EmptyBag
    /\ infos = EmptyBag
    /\ lastLive = NoCall

\* app.init() (awaited by app.listen) runs onModuleInit of the provider
\* instances, one module after the other.  onModuleInit suspends at each of
\* its awaits ($connect, CREATE EXTENSION, create_hypertable); one step is
\* the settling of the next await of instance i: the hook's log grows by the
\* entry onModuleInit gives for that outcome, and the hook completes when
\* its log is complete.  A raised hook rejects bootstrap(), and the process
\* never listens.  No await settles while the store does not answer at all.
ModuleInit(i) ==
    /\ phase = "starting"
    /\ initResult[i] = "none"
    /\ \A j \in Instances \ {i} : initLog[j] = <<>> \/ initResult[j] # "none"
    /\ ~silent
    /\ \E c \in StepOutcomes, e \in StepOutcomes, h \in StepOutcomes :
          LET r == onModuleInit(c, e, h)
              n == Len(initLog[i])
              step == r.steps[n + 1]
              log == Append(initLog[i], step)
              over == Len(log) = Len(r.steps)
          IN  /\ n < Len(r.steps)
              /\ SubSeq(r.steps, 1, n) = initLog[i]
              /\ StepPossible(step)
              /\ initLog' = [initLog EXCEPT ![i] = log]
              /\ initResult' = [initResult EXCEPT ![i] =
                                  IF over THEN r.kind ELSE "none"]
              /\ conn' = [conn EXCEPT ![i] =
                            IF step = "connect:ok" THEN "Connected"
                            ELSE IF step = "connect:failed" THEN "Failed" ELSE @]
              /\ ts' = ApplySteps(ts, <<step>>)
              /\ phase' = IF over /\ r.kind = "throw" THEN "aborted" ELSE phase
    /\ UNCHANGED <<destroyed, dbUp, silent, redisUp, calls, infos, lastLive>>

\* mutant: the server listens without waiting for the lifecycle hooks
Listen_early ==
    /\ phase = "starting"
    /\ phase' = "listening"
    /\ UNCHANGED <<lifecycle, store, redisUp, calls, infos, lastLive>>

\* main.ts: await app.listen(port), after every hook has completed.
Listen ==
    /\ phase = "starting"
    /\ \A i \in Instances : initResult[i] = "return"
    /\ phase' = "listening"
    /\ UNCHANGED <<lifecycle, store, redisUp, calls, infos, lastLive>>

\* The process is running: bootstrap() has not rejected (an unhandled
\* rejection ends the process by itself) and no signal has ended it.
Alive == phase \notin {"aborted", "exited"}

\* The process receives a termination signal.  main.ts installs no signal
\* handler, enables no shutdown hooks and never calls app.close(): at any
\* moment of its life, with the init hooks suspended or completed, the port
\* bound or not, the runtime ends the process and no lifecycle hook runs;
\* the frames of the calls it was serving go with it.
Shutdown ==
    /\ Alive
    /\ phase' = "exited"
    /\ calls' = EmptyBag
    /\ infos' = EmptyBag
    /\ UNCHANGED <<lifecycle, store, redisUp, lastLive>>

\* The store stops answering.
DatabaseStops ==
    /\ dbUp /\ ~silent
    /\ dbUp' = FALSE
    /\ UNCHANGED <<phase, lifecycle, ts, silent, redisUp, calls, infos, lastLive>>

\* The store answers again.
DatabaseStarts ==
    /\ ~dbUp /\ ~silent
    /\ dbUp' = TRUE
    /\ UNCHANGED <<phase, lifecycle, ts, silent, redisUp, calls, infos, lastLive>>

\* --------------------------------------------- check() and readiness()
\* check() and readiness() are async: a call runs to its first await (the
\* SELECT 1 round-trip, health.service.ts:20 / :52 -> prisma.service.ts:95),
\* resumes when the round-trip settles and runs to its second await (the
\* 5 ms timer, health.service.ts:25 / :53 -> :84), resumes when the timer
\* fires and returns.  Between two awaits other requests are served and the
\* store may change.  A frame holds the locals of one call:
\*   call   "check" | "ready"
\*   pc     "db" (round-trip pending) | "redis" (timer pending) | "done"
\*   in     what the call observed (see ProbeInput), NoCall before
\*   trace  the probe events of this call, in order
\*   out    the completion of the service method, http the status answered
\*   raced  at its return another call was past a round-trip with another
\*          outcome (observation only)

\* mutant: both probes are started together (Promise.all style)
OnCallStart_parallel == <<"db:start", "redis:start">>

\* Entering the method evaluates the first await: only the database probe.
OnCallStart == <<"db:start">>

\* The continuation of the database await evaluates the redis await.
OnDbSettled == <<"db:end", "redis:start">>

\* The continuation of the redis await builds the snapshot and returns.
OnRedisSettled == <<"redis:end">>

\* The frame of a call of kind k that has just been entered.
NewFrame(k) ==
    [call |-> k, pc |-> "db", in |-> NoCall, trace |-> OnCallStart,
     out |-> NoCall, http |-> 0, raced |-> FALSE]

\* Frames of calls that are past their round-trip, f itself left aside.
OthersPastDb(f) ==
    {g \in BagToSet(calls (-) SetToBag({f})) : g.pc \in {"redis", "done"}}

\* mutant: the outcome of the database probe is kept in a field of the
\* service, where another call that settled has overwritten it
DbResultOf_shared(f) ==
    IF OthersPastDb(f) # {}
    THEN LET g == CHOOSE g \in OthersPastDb(f) :
                    \A o \in OthersPastDb(f) : g.in.q # f.in.q \/ o.in.q = f.in.q
         IN  [q |-> g.in.q, dbElapsed |-> g.in.dbElapsed]
    ELSE [q |-> f.in.q, dbElapsed |-> f.in.dbElapsed]

\* The outcome of the database probe a call resumes with: the value of its
\* own await, held in the call's frame.
DbResultOf(f) == [q |-> f.in.q, dbElapsed |-> f.in.dbElapsed]

\* A GET /health (k = "check") or GET /health/ready (k = "ready") request
\* enters its service method and issues the round-trip.
StartCall(k) ==
    /\ Serving
    /\ BagCardinality(calls) < MaxCalls
    /\ calls' = calls (+) SetToBag({NewFrame(k)})
    /\ UNCHANGED <<phase, lifecycle, store, redisUp, infos, lastLive>>

\* mutant: a failed probe drops the client's connection
DbSettles_reconnects(f) ==
    /\ BagIn(f, calls) /\ f.pc = "db" /\ ~silent
    /\ \E el \in MeasuredLatencies(QueryRaw(dbUp)) :
          calls' = Swap(calls, f, SetToBag({
                      [f EXCEPT !.pc = "redis",
                                !.in = ProbeInput(QueryRaw(dbUp), el, 0),
                                !.trace = @ \o OnDbSettled]}))
    /\ conn' = [conn EXCEPT ![ProbedInstance] =
                  IF dbUp THEN @ ELSE "Disconnected"]
    /\ UNCHANGED <<phase, initLog, initResult, destroyed, store, redisUp,
                   infos, lastLive>>

\* The round-trip of the call in frame f settles against the store as it is
\* now; checkDatabase() returns and the call goes on to the redis timer.
DbSettles(f) ==
    /\ BagIn(f, calls) /\ f.pc = "db" /\ ~silent
    /\ \E el \in MeasuredLatencies(QueryRaw(dbUp)) :
          calls' = Swap(calls, f, SetToBag({
                      [f EXCEPT !.pc = "redis",
                                !.in = ProbeInput(QueryRaw(dbUp), el, 0),
                                !.trace = @ \o OnDbSettled]}))
    /\ UNCHANGED <<phase, lifecycle, store, redisUp, infos, lastLive>>

\* The timer of the call in frame f fires: the method builds its snapshot
\* from the locals of the call and returns, the handler answers.
RedisSettles(f) ==
    /\ BagIn(f, calls) /\ f.pc = "redis"
    /\ \E rEl \in RedisLatencies :
          LET src == DbResultOf(f)
              resp == IF f.call = "check"
                      THEN HealthController_check(src.q, src.dbElapsed, rEl)
                      ELSE HealthController_ready(src.q, src.dbElapsed, rEl)
          IN  calls' = Swap(calls, f, SetToBag({
                          [f EXCEPT !.pc = "done",
                                    !.in = [@ EXCEPT !.redisElapsed = rEl],
                                    !.trace = @ \o OnRedisSettled,
                                    !.out = resp.body,
                                    !.http = resp.http,
                                    !.raced = \E g \in OthersPastDb(f) :
                                                 g.in.q # f.in.q]}))
    /\ UNCHANGED <<phase, lifecycle, store, redisUp, infos, lastLive>>

\* The response in frame f has been sent; the frame is discarded.
Deliver(f) ==
    /\ BagIn(f, calls) /\ f.pc = "done"
    /\ calls' = Swap(calls, f, EmptyBag)
    /\ UNCHANGED <<phase, lifecycle, store, redisUp, infos, lastLive>>

\* mutant: liveness waits for a database round-trip
GetLive_viaProbe ==
    /\ Serving /\ ~silent
    /\ LET resp == HealthController_live
       IN  lastLive' = [kind |-> "done", dbUp |-> dbUp,
                        conn |-> conn[ProbedInstance],
                        pending |-> \E f \in BagToSet(calls) : f.pc = "db",
                        out |-> resp.body, http |-> resp.http]
    /\ UNCHANGED <<phase, lifecycle, store, redisUp, calls, infos>>

\* GET /health/live: the handler is synchronous, call and answer are one
\* step.  pending records whether a probing call was waiting for its
\* round-trip at that moment.
GetLive ==
    /\ Serving
    /\ LET resp == HealthController_live
       IN  lastLive' = [kind |-> "done", dbUp |-> dbUp,
                        conn |-> conn[ProbedInstance],
                        pending |-> \E f \in BagToSet(calls) : f.pc = "db",
                        out |-> resp.body, http |-> resp.http]
    /\ UNCHANGED <<phase, lifecycle, store, redisUp, calls, infos>>

Next ==
    \/ \E i \in Instances : ModuleInit(i)
    \/ Listen
    \/ Shutdown
    \/ DatabaseStops
    \/ DatabaseStarts
    \/ \E k \in RequestKinds : StartCall(k)
    \/ \E f \in BagToSet(calls) : DbSettles(f)
    \/ \E f \in BagToSet(calls) : RedisSettles(f)
    \/ \E f \in BagToSet(calls) : Deliver(f)
    \/ GetLive

Spec == Init /\ [][Next]_vars

\* ------------------------------------------------- getDatabaseInfo()
\* A holder of a PrismaService instance calls getDatabaseInfo() (no code of
\* the repository does; AppModule exports the provider).  The call suspends
\* at the version query (prisma.service.ts:110) and, once that is answered,
\* at the pg_extension lookup (:116).  A frame holds
\*   inst  the instance, pc "version" | "lookup" | "done",
\*   v, t  the outcomes of the two queries ("none" while not settled),
\*   out   the completion of the call.
Describe(i) ==
    /\ phase = "listening"
    /\ BagCardinality(infos) < MaxCalls
    /\ infos' = infos (+) SetToBag({[inst |-> i, pc |-> "version", v |-> "none",
                                     t |-> "none", out |-> NoCall]})
    /\ UNCHANGED <<phase, lifecycle, store, redisUp, calls, lastLive>>

\* The version query of the call in frame g settles.  When it raised, the
\* outer catch ends the call; otherwise the lookup is issued.
VersionSettles(g) ==
    /\ BagIn(g, infos) /\ g.pc = "version" /\ ~silent
    /\ LET v == QueryRaw(dbUp)
       IN  infos' = Swap(infos, g, SetToBag({
                       IF v = "ok"
                       THEN [g EXCEPT !.pc = "lookup", !.v = v]
                       ELSE [g EXCEPT !.pc = "done", !.v = v,
                                      !.out = getDatabaseInfo(v, "none")]}))
    /\ UNCHANGED <<phase, lifecycle, store, redisUp, calls, lastLive>>

\* The lookup of the call in frame g settles and the call completes.
LookupSettles(g) ==
    /\ BagIn(g, infos) /\ g.pc = "lookup" /\ ~silent
    /\ LET t == IF dbUp THEN CapabilityAnswer(ts) ELSE "raise"
       IN  infos' = Swap(infos, g, SetToBag({
                       [g EXCEPT !.pc = "done", !.t = t,
                                 !.out = getDatabaseInfo(g.v, t)]}))
    /\ UNCHANGED <<phase, lifecycle, store, redisUp, calls, lastLive>>

\* The caller has taken the result in frame g.
TakeInfo(g) ==
    /\ BagIn(g, infos) /\ g.pc = "done"
    /\ infos' = Swap(infos, g, EmptyBag)
    /\ UNCHANGED <<phase, lifecycle, store, redisUp, calls, lastLive>>

\* ------------------------------------------- closing the application
\* The owner of the application object calls app.close(): the container
\* runs onModuleDestroy of every provider, then disposes the HTTP server.
\* main.ts itself never does (see Shutdown).
CloseApp ==
    /\ phase = "listening"
    /\ phase' = "closing"
    /\ UNCHANGED <<lifecycle, store, redisUp, calls, infos, lastLive>>

\* onModuleDestroy of one provider instance is entered and suspends at
\* `await this.$disconnect()`; the hooks run one module after the other.
ModuleDestroy(i) ==
    /\ phase = "closing"
    /\ destroyed[i] = NoCall
    /\ \A j \in Instances \ {i} : destroyed[j].kind # "pending"
    /\ destroyed' = [destroyed EXCEPT ![i] = [kind |-> "pending", disconnect |-> "none"]]
    /\ UNCHANGED <<phase, conn, initLog, initResult, store, redisUp, calls,
                   infos, lastLive>>

\* $disconnect of instance i settles and its onModuleDestroy completes.
DisconnectSettles(i) ==
    /\ phase = "closing"
    /\ destroyed[i].kind = "pending"
    /\ \E d \in StepOutcomes :
          LET r == onModuleDestroy(d)
          IN  /\ destroyed' = [destroyed EXCEPT ![i] = [kind |-> r.kind, disconnect |-> d]]
              /\ conn' = [conn EXCEPT ![i] = IF d = "ok" THEN "Disconnected" ELSE @]
              /\ phase' = IF r.kind = "throw" THEN "close-failed" ELSE phase
    /\ UNCHANGED <<initLog, initResult, store, redisUp, calls, infos, lastLive>>

\* Every destroy hook has completed: the HTTP server is disposed.
Closed ==
    /\ phase = "closing"
    /\ \A i \in Instances : destroyed[i].kind = "return"
    /\ phase' = "closed"
    /\ UNCHANGED <<lifecycle, store, redisUp, calls, infos, lastLive>>

HookNext ==
    \/ \E i \in Instances : ModuleInit(i)
    \/ Listen
    \/ Shutdown
    \/ DatabaseStops
    \/ DatabaseStarts
    \/ \E i \in Instances : Describe(i)
    \/ \E g \in BagToSet(infos) : VersionSettles(g)
    \/ \E g \in BagToSet(infos) : LookupSettles(g)
    \/ \E g \in BagToSet(infos) : TakeInfo(g)
    \/ CloseApp
    \/ \E i \in Instances : ModuleDestroy(i)
    \/ \E i \in Instances : DisconnectSettles(i)
    \/ Closed

\* The lifecycle of the providers under an owner that uses and closes the
\* application: init hooks, listen, getDatabaseInfo, close, destroy hooks.
HookSpec == Init /\ [][HookNext]_vars

\* ------------------------------------------------ a store that hangs
\* The store accepts queries and never answers them.
StoreHangs ==
    /\ ~silent
    /\ silent' = TRUE
    /\ UNCHANGED <<phase, lifecycle, dbUp, ts, redisUp, calls, infos, lastLive>>

\* The store answers (or rejects) pending queries again.
StoreResumes ==
    /\ silent
    /\ silent' = FALSE
    /\ UNCHANGED <<phase, lifecycle, dbUp, ts, redisUp, calls, infos, lastLive>>

HangNext ==
    \/ Next
    \/ StoreHangs
    \/ StoreResumes

\* A frame of kind k whose round-trip is pending.
PendingFrame(k) == NewFrame(k)

\* The program against a store that may hang.  The event loop runs the
\* continuation of a settled round-trip and of a fired timer, hence the weak
\* fairness of the two settling actions; nothing obliges the store to
\* answer, and checkDatabase() has no timer racing the round-trip.
HangSpec ==
    /\ Init
    /\ [][HangNext]_vars
    /\ \A k \in RequestKinds : WF_vars(DbSettles(PendingFrame(k)))
    /\ WF_vars(\E f \in BagToSet(calls) : RedisSettles(f))

\* ------------------------------------------------------------ helpers
\* The calls of one view that have returned and are not yet discarded.
CheckResponses == {f \in BagToSet(calls) : f.call = "check" /\ f.pc = "done"}
ReadyResponses == {f \in BagToSet(calls) : f.call = "ready" /\ f.pc = "done"}
\* The getDatabaseInfo() calls that have completed.
InfoResults == {g \in BagToSet(infos) : g.pc = "done"}
LiveDone == lastLive.kind = "done"
\* The isHealthy() call made during a request answered true.
AnsweredHealthy(in) == in.healthy.kind = "return" /\ in.healthy.value
DependencyNames == {"database", "redis"}

\* ------------------------------------------------------------- claims

\* C1: when the database is unreachable (isHealthy() answers false or
\* raises), check() returns status "error" with checks.database.status
\* "down" and checks.database.responseTime -1.
C1_UnreachableDeepHealth ==
    \A chk \in CheckResponses :
        ~AnsweredHealthy(chk.in) =>
            /\ chk.out.kind = "return"
            /\ chk.out.value.status = "error"
            /\ chk.out.value.checks.database.status = "down"
            /\ chk.out.value.checks.database.responseTime = -1

\* C2: the snapshot of check() has status "ok" iff every entry of its
\* checks map has status "up", and "error" otherwise.
C2_OkIffAllUp ==
    \A chk \in CheckResponses :
        chk.out.kind = "return" =>
            LET snap == chk.out.value
                allUp == \A k \in DOMAIN snap.checks : snap.checks[k].status = "up"
            IN  /\ snap.status \in {"ok", "error"}
                /\ (snap.status = "ok") <=> allUp

\* C2 witness: a deep-health snapshot taken while the database was down.
C2_Witness ==
    \E chk \in CheckResponses :
        /\ ~chk.in.dbUp
        /\ chk.out.kind = "return"
        /\ chk.out.value.checks.database.responseTime = -1

\* C3: the snapshot of readiness() has status "ready" iff every boolean of
\* its dependencies map is true, and "not-ready" otherwise.
C3_ReadyIffAllTrue ==
    \A rdy \in ReadyResponses :
        rdy.out.kind = "return" =>
            LET snap == rdy.out.value
                allTrue == \A k \in DOMAIN snap.dependencies : snap.dependencies[k]
            IN  /\ snap.status \in {"ready", "not-ready"}
                /\ (snap.status = "ready") <=> allTrue

\* C3 witness: a readiness snapshot with a false dependency.
C3_Witness ==
    \E rdy \in ReadyResponses :
        /\ rdy.out.kind = "return"
        /\ ~rdy.out.value.dependencies.database
        /\ rdy.out.value.dependencies.redis
        /\ rdy.out.value.status = "not-ready"

\* C4: for one fixed dependency state and latency, a dependency has status
\* "up" in check() iff it is true in readiness().
C4_ViewsAgree ==
    \A chk \in CheckResponses, rdy \in ReadyResponses :
        ( /\ chk.out.kind = "return" /\ rdy.out.kind = "return"
          /\ chk.in.dbUp = rdy.in.dbUp
          /\ chk.in.dbElapsed = rdy.in.dbElapsed
          /\ chk.in.redisElapsed = rdy.in.redisElapsed ) =>
            \A k \in DependencyNames :
                (chk.out.value.checks[k].status = "up")
                    <=> rdy.out.value.dependencies[k]

\* C5: when the database is unreachable (isHealthy() answers false or
\* raises), readiness() returns "not-ready" with dependencies.database false.
C5_UnreachableNotReady ==
    \A rdy \in ReadyResponses :
        ~AnsweredHealthy(rdy.in) =>
            /\ rdy.out.kind = "return"
            /\ rdy.out.value.status = "not-ready"
            /\ rdy.out.value.dependencies.database = FALSE

\* C5 witness: a readiness request served while the store did not answer.
C5_Witness ==
    \E rdy \in ReadyResponses :
        /\ ~rdy.in.dbUp
        /\ rdy.in.q = "raise"
        /\ rdy.in.healthy = Ret(FALSE)

\* C6: dependencies.database of readiness() is true iff the isHealthy()
\* call of that request answered true, whatever its latency (0 included).
C6_DatabaseTrueIffHealthy ==
    \A rdy \in ReadyResponses :
        rdy.out.kind = "return" =>
            (rdy.out.value.dependencies.database <=> AnsweredHealthy(rdy.in))

\* C7: live() returns status "ok" in every reachable state, whatever the
\* state of the database and of the connection.
C7_LiveAlwaysOk ==
    /\ live.kind = "return"
    /\ live.value.status = "ok"
    /\ LiveDone => (lastLive.out.kind = "return" /\ lastLive.out.value.status = "ok")

\* C7 witness: a liveness request served while the database was down.
C7_Witness ==
    /\ LiveDone
    /\ ~lastLive.dbUp
    /\ lastLive.out.kind = "return"

\* C8: /health answers 200 when the body is "ok" and 503 when it is
\* "error"; /health/ready answers 200 when "ready" and 503 when "not-ready".
C8_StatusCodeFollowsBody ==
    /\ \A chk \in CheckResponses :
          chk.out.kind = "return" =>
              chk.http = (IF chk.out.value.status = "ok"
                          THEN HttpOk ELSE HttpUnavailable)
    /\ \A rdy \in ReadyResponses :
          rdy.out.kind = "return" =>
              rdy.http = (IF rdy.out.value.status = "ready"
                          THEN HttpOk ELSE HttpUnavailable)

\* C9: check() and readiness() never raise; each call completes with a
\* well-formed snapshot for every behaviour of the database round-trip.
C9_ProbesContained ==
    /\ \A chk \in CheckResponses :
          /\ chk.out.kind = "return"
          /\ chk.out.value.status \in {"ok", "error"}
          /\ DOMAIN chk.out.value.checks = DependencyNames
          /\ \A k \in DependencyNames :
                /\ chk.out.value.checks[k].status \in {"up", "down"}
                /\ chk.out.value.checks[k].responseTime \in Int
          /\ chk.http = HttpOk
    /\ \A rdy \in ReadyResponses :
          /\ rdy.out.kind = "return"
          /\ rdy.out.value.status \in {"ready", "not-ready"}
          /\ DOMAIN rdy.out.value.dependencies = DependencyNames
          /\ \A k \in DependencyNames :
                rdy.out.value.dependencies[k] \in BOOLEAN
          /\ rdy.http = HttpOk

\* C9 witness: both views were served while the round-trip query raised.
C9_Witness ==
    \E chk \in CheckResponses, rdy \in ReadyResponses :
        /\ chk.in.q = "raise" /\ rdy.in.q = "raise"
        /\ chk.out.kind = "return" /\ rdy.out.kind = "return"

\* C10: isHealthy() never raises; it answers true when the SELECT 1
\* round-trip succeeds and false when the round-trip raises.
C10_IsHealthyContained ==
    /\ \A q \in StepOutcomes : isHealthy(q).kind = "return"
    /\ \A f \in CheckResponses \cup ReadyResponses :
          /\ f.in.healthy.kind = "return"
          /\ f.in.healthy.value <=> (f.in.q = "ok")

\* C10 witness: isHealthy() was called with a raising round-trip and with a
\* succeeding one, on an established connection.
C10_Witness ==
    \E chk \in CheckResponses, rdy \in ReadyResponses :
        /\ chk.in.q = "raise" /\ chk.in.healthy = Ret(FALSE)
        /\ rdy.in.q = "ok" /\ rdy.in.healthy = Ret(TRUE)
        /\ chk.in.conn = "Connected"

\* ------------------------------------------------ claims C11 .. C20
ExtSteps == {"ext:applied", "ext:warned"}
HyperSteps == {"hyper:applied", "hyper:warned"}
\* onModuleInit of instance i has run and its $connect succeeded / failed.
ConnectSucceeded(i) == initLog[i] # <<>> /\ initLog[i][1] = "connect:ok"
ConnectFailed(i) == initLog[i] # <<>> /\ initLog[i][1] = "connect:failed"
\* onModuleInit of instance i has settled its three awaits.
HookRanAll(i) == Len(initLog[i]) = 3

\* C11: if establishing the connection fails, onModuleInit propagates the
\* error, makes no second attempt and attempts no bootstrap step; the
\* connection never reaches Connected in that run.
C11_ConnectFailureIsFatal ==
    \A i \in Instances :
        /\ ConnectFailed(i) =>
              /\ initResult[i] = "throw"
              /\ initLog[i] = <<"connect:failed">>
              /\ conn[i] = "Failed"
              /\ phase = "aborted"
        /\ conn[i] = "Connected" => ConnectSucceeded(i)

\* C11 witness: a hook whose $connect was rejected.
C11_Witness ==
    \E i \in Instances :
        ConnectFailed(i) /\ initResult[i] = "throw" /\ conn[i] = "Failed"

\* C12: once the connection is established, onModuleInit raises no error
\* and the state is Connected, whatever the two bootstrap steps do; when
\* both steps have settled the hook has completed normally.
C12_BootstrapNeverAborts ==
    \A i \in Instances :
        ConnectSucceeded(i) =>
            /\ initResult[i] # "throw"
            /\ conn[i] = "Connected"
            /\ HookRanAll(i) => initResult[i] = "return"

\* C12 witness: one start where both steps failed and one where the
\* extension was enabled and the hypertable step failed.
C12_Witness ==
    /\ initLog["app"] = <<"connect:ok", "ext:warned", "hyper:warned">>
    /\ initLog["health"] = <<"connect:ok", "ext:applied", "hyper:warned">>
    /\ \A i \in Instances : initResult[i] = "return" /\ conn[i] = "Connected"
    /\ phase = "listening"

\* C13: within one onModuleInit the hypertable step is begun only after the
\* extension step has finished, and both only after the connection is
\* established.
C13_BootstrapOrder ==
    \A i \in Instances : \A k \in DOMAIN initLog[i] :
        /\ initLog[i][k] \in HyperSteps =>
              (k > 2 /\ initLog[i][k - 1] \in ExtSteps)
        /\ initLog[i][k] \in ExtSteps \cup HyperSteps =>
              (k > 1 /\ initLog[i][1] = "connect:ok")

\* C13 witness: a start that ran both steps, the extension step ending in
\* a caught failure.
C13_Witness ==
    \E i \in Instances :
        /\ Len(initLog[i]) = 3
        /\ initLog[i][2] = "ext:warned"
        /\ initLog[i][3] \in HyperSteps

\* C14: running the bootstrap again on a store whose extension is enabled
\* and whose hypertable exists raises no error, leaves the connection
\* Connected and the store as it was: every await of a hook that settles on
\* such a store, after an established connection, does so.
C14_RebootstrapIdempotent ==
    [][\A i \in Instances :
          ( /\ ts = "hypertable"
            /\ Len(initLog'[i]) > Len(initLog[i])
            /\ initLog'[i][1] = "connect:ok" ) =>
              /\ initResult'[i] # "throw"
              /\ Len(initLog'[i]) = 3 => initResult'[i] = "return"
              /\ conn'[i] = "Connected"
              /\ phase' # "aborted"
              /\ ts' = "hypertable"]_vars

\* C14 witness: both providers have bootstrapped, successfully, a store
\* that is bootstrapped; the later one repeated the earlier one's steps.
C14_Witness ==
    /\ ts = "hypertable"
    /\ \A i \in Instances :
          /\ initLog[i] = <<"connect:ok", "ext:applied", "hyper:applied">>
          /\ initResult[i] = "return"
          /\ conn[i] = "Connected"

\* C15: the outcome of the bootstrap steps never influences a probe:
\* isHealthy() answers true whenever the round-trip succeeds and both views
\* report the database from the round-trip and its latency alone.
C15_BootstrapNotProbed ==
    /\ \A chk \in CheckResponses :
          /\ chk.in.healthy = Ret(chk.in.q = "ok")
          /\ chk.out.kind = "return"
          /\ chk.out.value.checks.database.responseTime =
                (IF chk.in.q = "ok" THEN chk.in.dbElapsed ELSE -1)
    /\ \A rdy \in ReadyResponses :
          /\ rdy.in.healthy = Ret(rdy.in.q = "ok")
          /\ rdy.out.kind = "return"
          /\ rdy.out.value.dependencies.database =
                (rdy.in.q = "ok" /\ rdy.in.dbElapsed > 0)

\* C15 witness: both views served, the round-trip succeeding, after a
\* start whose two bootstrap steps failed on a backend without capability.
C15_Witness ==
    /\ ts = "missing"
    /\ \E chk \in CheckResponses, rdy \in ReadyResponses :
          /\ chk.in.boot = <<"connect:ok", "ext:warned", "hyper:warned">>
          /\ rdy.in.boot = <<"connect:ok", "ext:warned", "hyper:warned">>
          /\ chk.in.healthy = Ret(TRUE)
          /\ rdy.in.healthy = Ret(TRUE)
          /\ rdy.out.value.dependencies.database

\* C16: onModuleDestroy never raises; a failed release is contained and
\* the shutdown proceeds.
C16_DestroyContained ==
    /\ \A i \in Instances : destroyed[i].kind \in {"none", "pending", "return"}
    /\ phase # "close-failed"

\* C16 witness: the application is closed although a release failed.
C16_Witness ==
    /\ phase = "closed"
    /\ \E i \in Instances :
          /\ destroyed[i] = [kind |-> "return", disconnect |-> "raise"]
          /\ conn[i] = "Connected"

\* C17: when the process is shut down after a successful start (it was
\* listening), the teardown (onModuleDestroy) has been invoked by the time
\* the process ends and the connection state has gone from Connected to
\* Disconnected.
C17_ShutdownRunsTeardown ==
    [][(phase = "listening" /\ phase' = "exited") =>
          \A i \in Instances :
              destroyed'[i] # NoCall /\ conn'[i] = "Disconnected"]_vars

\* C18: per process run exactly one Storage Connection Manager instance is
\* connected and bootstrapped, it is the instance the health service
\* probes, and a run that established a connection has released it exactly
\* once when the process has ended.
C18_SingleConnectionHandle ==
    /\ phase = "listening" =>
          /\ Cardinality({i \in Instances : conn[i] = "Connected"}) = 1
          /\ Cardinality({i \in Instances : initLog[i] # <<>>}) = 1
          /\ conn[ProbedInstance] = "Connected"
    /\ (phase = "exited" /\ \E i \in Instances : ConnectSucceeded(i)) =>
          Cardinality({i \in Instances : destroyed[i] # NoCall}) = 1

\* C19: no probe issues a round-trip before the connection is established:
\* every check() / readiness() call is entered after onModuleInit of the
\* probed instance has completed successfully.
C19_ProbeAfterStart ==
    /\ (Serving \/ calls # EmptyBag) =>
          (initResult[ProbedInstance] = "return" /\ ConnectSucceeded(ProbedInstance))
    /\ \A f \in BagToSet(calls) :
          f.pc # "db" =>
              /\ f.in.conn = "Connected"
              /\ f.in.boot # <<>> /\ f.in.boot[1] = "connect:ok"

\* C19 witness: both probing views have been served.
C19_Witness ==
    /\ \E chk \in CheckResponses, rdy \in ReadyResponses :
          chk.in.conn = "Connected" /\ rdy.in.conn = "Connected"
    /\ initResult[ProbedInstance] = "return"

\* C20: every probe is bounded by a timeout: a check() or readiness() whose
\* round-trip query is not answered still eventually gets past it (or the
\* process has exited).
C20_ProbesEventuallyReturn ==
    \A k \in RequestKinds :
        BagIn(PendingFrame(k), calls)
            ~> ( \/ \E f \in BagToSet(calls) : f.call = k /\ f.pc # "db"
                 \/ phase = "exited" )

\* ------------------------------------------------ claims C21 .. C30
\* C21: probe results are never cached: after the store changes state, the
\* next check() and the next readiness() report the state the store has at
\* the round-trip of that call (database "up"/true exactly when the store
\* answers), whatever an earlier call returned.
C21_NextCallReportsNewState ==
    /\ \A chk \in CheckResponses :
          (chk.out.value.checks.database.status = "up") = chk.in.dbUp
    /\ \A rdy \in ReadyResponses :
          rdy.out.value.dependencies.database = rdy.in.dbUp

\* C22: in every dependency state the checks map of check() and the
\* dependencies map of readiness() have exactly the keys database and redis.
C22_BothKeysAlwaysReported ==
    /\ \A chk \in CheckResponses : DOMAIN chk.out.value.checks = DependencyNames
    /\ \A rdy \in ReadyResponses : DOMAIN rdy.out.value.dependencies = DependencyNames

C22_Witness ==
    /\ ~redisUp
    /\ \E chk \in CheckResponses, rdy \in ReadyResponses :
          /\ ~chk.in.dbUp /\ ~rdy.in.dbUp
          /\ DOMAIN chk.out.value.checks = {"database", "redis"}
          /\ DOMAIN rdy.out.value.dependencies = {"database", "redis"}

\* C23: only a failed connect in onModuleInit raises: the bootstrap steps,
\* onModuleDestroy, isHealthy and getDatabaseInfo never raise to their
\* caller, also when the backend version query fails.
C23_OnlyConnectFailureRaises ==
    /\ \A i \in Instances : initResult[i] = "throw" => ConnectFailed(i)
    /\ \A i \in Instances : destroyed[i].kind # "throw"
    /\ \A q \in StepOutcomes : isHealthy(q).kind = "return"
    /\ \A g \in InfoResults : g.out.kind = "return"

\* C24: when the version query succeeds and the capability lookup raises or
\* returns no row, getDatabaseInfo returns the backend version with
\* timescaleVersion absent and raises nothing.
C24_MissingCapabilityIsNormal ==
    \A g \in InfoResults :
        (g.v = "ok" /\ g.t \in {"raise", "norow"})
        => /\ g.out.kind = "return"
           /\ g.out.value.version = "backend"
           /\ g.out.value.timescaleVersion = Undefined

C24_Witness ==
    \E g1 \in InfoResults, g2 \in InfoResults :
        /\ g1.v = "ok" /\ g1.t = "raise" /\ g1.out.kind = "return"
        /\ g2.v = "ok" /\ g2.t = "norow" /\ g2.out.kind = "return"
        /\ g1.out.value.timescaleVersion = Undefined
        /\ g2.out.value.timescaleVersion = Undefined

\* C25: a step of a check(), live() or readiness() call leaves the
\* connection state and every field of the PrismaService instances (and the
\* store's bootstrap state) as they were.
C25_ProbesChangeNoField ==
    [][(calls' # calls \/ lastLive' # lastLive)
          => UNCHANGED <<conn, initLog, initResult, destroyed, ts>>]_vars

C25_Witness ==
    /\ LiveDone
    /\ \E chk \in CheckResponses, rdy \in ReadyResponses :
          /\ ~chk.in.dbUp /\ rdy.in.dbUp
          /\ chk.in.conn = "Connected" /\ rdy.in.conn = "Connected"
    /\ \A i \in Instances : conn[i] = "Connected"

\* C26: under every interleaving of check() and readiness() calls, the
\* values a call returns are those of the round-trips it issued itself.
C26_CallsAreIsolated ==
    \A f \in CheckResponses \cup ReadyResponses :
        LET own == IF f.in.q = "ok" THEN f.in.dbElapsed ELSE -1
        IN  /\ f.out.kind = "return"
            /\ f.call = "check" =>
                  /\ f.out.value.checks.database.responseTime = own
                  /\ f.out.value.checks.redis.responseTime = f.in.redisElapsed
            /\ f.call = "ready" =>
                  /\ f.out.value.dependencies.database = (own > 0)
                  /\ f.out.value.dependencies.redis = (f.in.redisElapsed > 0)
                  /\ f.out.value.status =
                        IF own > 0 /\ f.in.redisElapsed > 0
                        THEN "ready" ELSE "not-ready"

\* C26 witness: a readiness() call whose round-trip raised has returned
\* while a check() call whose round-trip succeeded was waiting for its timer.
C26_Witness ==
    \E rdy \in ReadyResponses, chk \in BagToSet(calls) :
        /\ rdy.raced /\ rdy.in.q = "raise"
        /\ ~rdy.out.value.dependencies.database
        /\ chk.call = "check" /\ chk.pc = "redis"
        /\ chk.in.q = "ok" /\ chk.in.dbElapsed > 0

\* C27: live() issues no database round-trip: a liveness request can be
\* served in every state of a listening process, also while the store hangs
\* and other requests are suspended in their round-trip, and a liveness
\* request served then answers "ok".
C27_LiveNeedsNoRoundTrip ==
    /\ Serving => ENABLED GetLive
    /\ (LiveDone /\ lastLive.pending) =>
          /\ lastLive.out.kind = "return"
          /\ lastLive.out.value.status = "ok"

C27_Witness ==
    /\ LiveDone /\ lastLive.pending
    /\ silent
    /\ \A k \in RequestKinds : BagIn(PendingFrame(k), calls)
    /\ lastLive.out.value.status = "ok"

\* C28: in every check() snapshot the database responseTime is -1 or a
\* non-negative elapsed time, and it is -1 exactly when the isHealthy() call
\* of that check returned false or raised.
C28_ResponseTimeSentinel ==
    \A chk \in CheckResponses :
        LET rt == chk.out.value.checks.database.responseTime
        IN  /\ rt = -1 \/ rt >= 0
            /\ (rt = -1) = ~AnsweredHealthy(chk.in)
            /\ AnsweredHealthy(chk.in) => rt = chk.in.dbElapsed

\* C29: within one check() call and one readiness() call the redis probe is
\* started only after the database probe of the same call has completed.
C29_DatabaseProbeBeforeRedis ==
    \A f \in BagToSet(calls) :
        /\ \A n \in DOMAIN f.trace :
              f.trace[n] = "redis:start" =>
                  \E m \in 1 .. (n - 1) : f.trace[m] = "db:end"
        /\ f.pc = "done" =>
              f.trace = <<"db:start", "db:end", "redis:start", "redis:end">>

C29_Witness ==
    \E chk \in CheckResponses, rdy \in ReadyResponses :
        /\ chk.raced
        /\ chk.trace = <<"db:start", "db:end", "redis:start", "redis:end">>
        /\ rdy.trace = <<"db:start", "db:end", "redis:start", "redis:end">>

\* C30: the redis entry of both views does not depend on a Redis server:
\* reachable or not, check() reports redis "up" with the elapsed simulated
\* delay and readiness() reports redis true whenever that delay is positive.
C30_RedisEntryIsSimulated ==
    /\ \A chk \in CheckResponses :
          /\ chk.out.value.checks.redis.status = "up"
          /\ chk.out.value.checks.redis.responseTime = chk.in.redisElapsed
    /\ \A rdy \in ReadyResponses :
          (rdy.in.redisElapsed > 0 => rdy.out.value.dependencies.redis)

C30_Witness ==
    /\ ~redisUp
    /\ \E chk \in CheckResponses, rdy \in ReadyResponses :
          /\ chk.out.value.checks.redis.status = "up"
          /\ chk.out.value.checks.redis.responseTime = RedisDelay
          /\ rdy.out.value.dependencies.redis

====
